---- MODULE Spec2Model ----
(***************************************************************************)
(* rulisp: a small Lisp interpreter (lexer -> parser -> tree-walking       *)
(* evaluator).  The model starts from the token vector that lex() hands to *)
(* the parser, parses it as parse_program() does, and then runs the        *)
(* evaluator of eval.rs as a small-step machine: `ctl` is the expression   *)
(* being evaluated or the Result just returned, `stack` holds the          *)
(* suspended Rust activations (one record per pending eval_* call) and     *)
(* `envs` is the chain of Env frames from the root (index 1) to the        *)
(* current frame (last).  A Lambda stores no environment and a frame made  *)
(* by eval_func_call is dropped when the call returns, so the parent links *)
(* of the live frames always form exactly this sequence.                   *)
(***************************************************************************)
EXTENDS Integers, Sequences, FiniteSets, TLC

VARIABLES tokens, ctl, envs, stack

vars == <<tokens, ctl, envs, stack>>

(***************************************************************************)
(* Bounds of the model.                                                    *)
(***************************************************************************)
\* width of the machine integer standing for i64 (two's complement)
IntBits == 4
\* deepest chain of Env frames explored (root frame included)
MaxDepth == 6
\* longest token vector enumerated for the parser
MaxTokens == 4
\* longest quoted list handed to the recursive map function
MaxListLen == 3

Pow2(n) == 2 ^ n
MinInt == 0 - Pow2(IntBits - 1)
MaxInt == Pow2(IntBits - 1) - 1
I64 == MinInt .. MaxInt

(***************************************************************************)
(* parser.rs: enum Object, and Result<Object, String>.                     *)
(***************************************************************************)
Nil == [t |-> "Nil"]
Integer(n) == [t |-> "Integer", n |-> n]
Bool(b) == [t |-> "Bool", b |-> b]
Symbol(s) == [t |-> "Symbol", s |-> s]
Lambda(params, body) == [t |-> "Lambda", params |-> params, body |-> body]
List(l) == [t |-> "List", l |-> l]

Ok(v) == [ok |-> TRUE, v |-> v]
Err(msg) == [ok |-> FALSE, msg |-> msg]

(***************************************************************************)
(* lexer.rs: enum Token.                                                   *)
(***************************************************************************)
LParen == [k |-> "LParen"]
RParen == [k |-> "RParen"]
Quote == [k |-> "Quote"]
TInteger(n) == [k |-> "Integer", n |-> n]
TSymbol(s) == [k |-> "Symbol", s |-> s]

(***************************************************************************)
(* Vec<Token> used as a stack: pop() takes the last element.               *)
(***************************************************************************)
Last(s) == s[Len(s)]
Pop(s) == IF s = <<>> THEN <<>> ELSE SubSeq(s, 1, Len(s) - 1)
Rev(s) == [i \in 1 .. Len(s) |-> s[Len(s) + 1 - i]]

(***************************************************************************)
(* parser.rs parse(): returns the Result and the tokens left on the stack. *)
(* parse_loop is the `while let Some(token) = tokens.pop()` loop with the  *)
(* list built so far.                                                      *)
(***************************************************************************)
\* mutant of end_of_tokens: running out of tokens inside a list is an error
end_of_tokens_err(list) == [res |-> Err("Unexpected end of input"), toks |-> <<>>]

\* the tokens ran out inside a list: the list is returned as it stands
end_of_tokens(list) == [res |-> Ok(List(list)), toks |-> <<>>]

\* the (quote X) list that a quote marker followed by X becomes
quoted(x) == List(<<Symbol("quote"), x>>)

RECURSIVE parse(_), parse_loop(_, _)
parse(toks) ==
    IF toks = <<>> \/ Last(toks) # LParen
    THEN [res |-> Err("Expected LParen"), toks |-> Pop(toks)]
    ELSE parse_loop(<<>>, Pop(toks))

parse_loop(list, toks) ==
    IF toks = <<>> THEN end_of_tokens(list)
    ELSE LET token == Last(toks)
             rest == Pop(toks)
         IN CASE token.k = "Integer" -> parse_loop(Append(list, Integer(token.n)), rest)
              [] token.k = "Symbol" -> parse_loop(Append(list, Symbol(token.s)), rest)
              [] token.k = "LParen" ->
                    LET sub == parse(Append(rest, LParen))
                    IN IF sub.res.ok
                       THEN parse_loop(Append(list, sub.res.v), sub.toks)
                       ELSE sub
              [] token.k = "RParen" -> [res |-> Ok(List(list)), toks |-> rest]
              [] token.k = "Quote" ->
                    IF rest = <<>> THEN parse_loop(list, rest)
                    ELSE LET next == Last(rest)
                             rest2 == Pop(rest)
                         IN CASE next.k = "Integer" ->
                                    parse_loop(Append(list, quoted(Integer(next.n))), rest2)
                              [] next.k = "Symbol" ->
                                    parse_loop(Append(list, quoted(Symbol(next.s))), rest2)
                              [] next.k = "LParen" ->
                                    LET sub == parse(Append(rest2, LParen))
                                    IN IF sub.res.ok
                                       THEN parse_loop(Append(list, quoted(sub.res.v)), sub.toks)
                                       ELSE sub
                              [] OTHER -> [res |-> Err("Invalid quote"), toks |-> rest2]

\* parse_program(): the token vector is reversed, then parsed from its end
parse_program(toks) == parse(Rev(toks)).res

(***************************************************************************)
(* eval.rs: struct Env.  A frame is the HashMap `vars`; `chain` is the     *)
(* frame and its ancestors, root first.                                    *)
(***************************************************************************)
EnvNew == [x \in {} |-> Nil]

None == [some |-> FALSE]
Some(v) == [some |-> TRUE, v |-> v]

RECURSIVE get_object(_, _)
get_object(chain, name) ==
    IF chain = <<>> THEN None
    ELSE IF name \in DOMAIN Last(chain) THEN Some(Last(chain)[name])
    ELSE get_object(Pop(chain), name)

set_object(frame, name, val) ==
    [x \in DOMAIN frame \cup {name} |-> IF x = name THEN val ELSE frame[x]]

\* mutant of set_current: the write goes to the root frame
set_current_root(chain, name, val) ==
    [chain EXCEPT ![1] = set_object(chain[1], name, val)]

\* env.borrow_mut().set_object(..): the write goes to the current frame
set_current(chain, name, val) ==
    [chain EXCEPT ![Len(chain)] = set_object(chain[Len(chain)], name, val)]

(***************************************************************************)
(* The machine's control: eval_object(obj) is about to run, or a call of   *)
(* eval_object has returned `res` to the activation on top of `stack`.     *)
(***************************************************************************)
Evaluating(obj) == [mode |-> "eval", obj |-> obj]
Returning(res) == [mode |-> "ret", res |-> res]
Panicked(why) == [mode |-> "panic", why |-> why]

Top == Last(stack)
IsEval == ctl.mode = "eval"
Resumes(kind) == ctl.mode = "ret" /\ stack # <<>> /\ Top.k = kind
Done == ctl.mode = "ret" /\ stack = <<>>

\* the callee returns `res` to its caller without a nested evaluation
Return(res) == ctl' = Returning(res) /\ UNCHANGED <<tokens, envs, stack>>
\* the activation on top of the stack finishes with `res`
Finish(res) == ctl' = Returning(res) /\ stack' = Pop(stack) /\ UNCHANGED <<tokens, envs>>
\* the `?` operator on an Err: the activation ends and hands the Err on
Propagate == Finish(ctl.res)
\* a nested eval_object(obj) from a fresh activation `frame`
Call(obj, frame) ==
    ctl' = Evaluating(obj) /\ stack' = Append(stack, frame) /\ UNCHANGED <<tokens, envs>>
\* a nested eval_object(obj) from the activation on top, which becomes `frame`
Continue(obj, frame) ==
    /\ ctl' = Evaluating(obj)
    /\ stack' = [stack EXCEPT ![Len(stack)] = frame]
    /\ UNCHANGED <<tokens, envs>>
\* a tail call: the activation's result is whatever eval_object(obj) returns
TailCall(obj) == ctl' = Evaluating(obj) /\ stack' = Pop(stack) /\ UNCHANGED <<tokens, envs>>
Panic(why) == ctl' = Panicked(why) /\ UNCHANGED <<tokens, envs, stack>>

BinaryOps == {"+", "-", "*", "/", "<", ">", "==", "!="}
Keywords ==
    BinaryOps \cup {"define", "if", "lambda", "atom", "quote", "cons", "car", "cdr", "progn"}

IsForm(obj, names) ==
    /\ obj.t = "List"
    /\ obj.l # <<>>
    /\ obj.l[1].t = "Symbol"
    /\ obj.l[1].s \in names

(***************************************************************************)
(* eval_object: the self-evaluating variants.  Symbols and lists are       *)
(* handed to eval_symbol and eval_list (the actions below).                *)
(***************************************************************************)
eval_object ==
    /\ IsEval
    /\ ctl.obj.t \in {"Nil", "Integer", "Bool", "Lambda"}
    /\ IF ctl.obj.t = "Lambda" THEN Return(Ok(Nil)) ELSE Return(Ok(ctl.obj))

eval_symbol ==
    /\ IsEval
    /\ ctl.obj.t = "Symbol"
    /\ LET name == ctl.obj.s
           val == get_object(envs, name)
       IN CASE name = "NIL" -> Return(Ok(Nil))
            [] name = "T" -> Return(Ok(Bool(TRUE)))
            [] name = "F" -> Return(Ok(Bool(FALSE)))
            [] OTHER -> IF val.some THEN Return(Ok(val.v)) ELSE Return(Err("Unbound sysmbol"))

(***************************************************************************)
(* eval_list: the empty list, and the list whose head is no symbol, whose  *)
(* elements are evaluated in order and collected without the Nil results.  *)
(* Lists headed by a symbol are dispatched to the handlers below.          *)
(***************************************************************************)
\* mutant of collect: Nil results are kept
collect_all(new_list, res) == Append(new_list, res)

\* new_list after one more element evaluated to `res`
collect(new_list, res) == IF res = Nil THEN new_list ELSE Append(new_list, res)

eval_list ==
    /\ IsEval
    /\ ctl.obj.t = "List"
    /\ IF ctl.obj.l = <<>> THEN Return(Ok(Nil))
       ELSE /\ ctl.obj.l[1].t # "Symbol"
            /\ Call(ctl.obj.l[1], [k |-> "list", list |-> ctl.obj.l, i |-> 1, new_list |-> <<>>])

eval_list_next ==
    /\ Resumes("list")
    /\ IF ~ctl.res.ok THEN Propagate
       ELSE LET new_list == collect(Top.new_list, ctl.res.v)
            IN IF Top.i = Len(Top.list) THEN Finish(Ok(List(new_list)))
               ELSE Continue(Top.list[Top.i + 1],
                             [Top EXCEPT !.i = Top.i + 1, !.new_list = new_list])

(***************************************************************************)
(* eval_binary_op.  i64 arithmetic: `+ - *` overflow panics in a build     *)
(* with overflow checks and wraps in one without; `/` of the minimum by -1 *)
(* panics in every build; `/` truncates toward zero.                       *)
(***************************************************************************)
Abs(n) == IF n < 0 THEN 0 - n ELSE n
Wrap(n) == ((n - MinInt) % Pow2(IntBits)) + MinInt
TruncDiv(a, b) ==
    IF (a < 0) = (b < 0) THEN Abs(a) \div Abs(b) ELSE 0 - (Abs(a) \div Abs(b))

Abort == [abort |-> TRUE]

Exact(op, left, right) ==
    CASE op = "+" -> left + right
      [] op = "-" -> left - right
      [] op = "*" -> left * right

\* the outcomes of `op` on two integers: each is a Result or Abort (a panic)
binary_outcomes(op, left, right) ==
    CASE op \in {"+", "-", "*"} ->
            IF Exact(op, left, right) \in I64 THEN {Ok(Integer(Exact(op, left, right)))}
            ELSE {Ok(Integer(Wrap(Exact(op, left, right)))), Abort}
      [] op = "/" ->
            IF right = 0 THEN {Err("Connot divide by 0")}
            ELSE IF left = MinInt /\ right = 0 - 1 THEN {Abort}
            ELSE {Ok(Integer(TruncDiv(left, right)))}
      [] op = "<" -> {Ok(Bool(left < right))}
      [] op = ">" -> {Ok(Bool(left > right))}
      [] op = "==" -> {Ok(Bool(left = right))}
      [] op = "!=" -> {Ok(Bool(left # right))}

eval_binary_op ==
    /\ IsEval
    /\ IsForm(ctl.obj, BinaryOps)
    /\ IF Len(ctl.obj.l) # 3
       THEN Return(Err("Invalid number of arguments for binary operator"))
       ELSE Call(ctl.obj.l[2], [k |-> "binary_left", list |-> ctl.obj.l])

eval_binary_op_left ==
    /\ Resumes("binary_left")
    /\ IF ~ctl.res.ok THEN Propagate
       ELSE IF ctl.res.v.t # "Integer" THEN Finish(Err("Left operand must be an integer"))
       ELSE Continue(Top.list[3], [k |-> "binary_right", list |-> Top.list, left |-> ctl.res.v.n])

eval_binary_op_right ==
    /\ Resumes("binary_right")
    /\ IF ~ctl.res.ok THEN Propagate
       ELSE IF ctl.res.v.t # "Integer" THEN Finish(Err("Right operand must be an integer"))
       ELSE \E out \in binary_outcomes(Top.list[1].s, Top.left, ctl.res.v.n) :
                IF out = Abort THEN Panic("arithmetic overflow") ELSE Finish(out)

(***************************************************************************)
(* eval_define                                                             *)
(***************************************************************************)
eval_define ==
    /\ IsEval
    /\ IsForm(ctl.obj, {"define"})
    /\ IF Len(ctl.obj.l) # 3 THEN Return(Err("Invalid number of arguments for define"))
       ELSE IF ctl.obj.l[2].t # "Symbol" THEN Return(Err("Invalid identifier for define"))
       ELSE Call(ctl.obj.l[3], [k |-> "define", sym |-> ctl.obj.l[2].s])

eval_define_set ==
    /\ Resumes("define")
    /\ IF ~ctl.res.ok THEN Propagate
       ELSE /\ envs' = set_current(envs, Top.sym, ctl.res.v)
            /\ ctl' = Returning(Ok(Nil))
            /\ stack' = Pop(stack)
            /\ UNCHANGED tokens

(***************************************************************************)
(* eval_if                                                                 *)
(***************************************************************************)
\* mutant of if_branch: the untaken branch is evaluated too, before the taken one
if_branch_both(list, cond) ==
    List(<<Symbol("progn"), IF cond THEN list[4] ELSE list[3], IF cond THEN list[3] ELSE list[4]>>)

\* the operand of (if cond then else) that is evaluated once cond is known
if_branch(list, cond) == IF cond THEN list[3] ELSE list[4]

eval_if ==
    /\ IsEval
    /\ IsForm(ctl.obj, {"if"})
    /\ IF Len(ctl.obj.l) # 4 THEN Return(Err("Invalid number of arguments for if statement"))
       ELSE Call(ctl.obj.l[2], [k |-> "if", list |-> ctl.obj.l])

eval_if_branch ==
    /\ Resumes("if")
    /\ IF ~ctl.res.ok THEN Propagate
       ELSE IF ctl.res.v.t # "Bool" THEN Finish(Err("Condition must be a boolean"))
       ELSE TailCall(if_branch(Top.list, ctl.res.v.b))

(***************************************************************************)
(* eval_lambda and eval_quote: no nested evaluation.                       *)
(***************************************************************************)
lambda_result(list) ==
    IF Len(list) # 3 THEN Err("Invalid number of arguments for lambda statement")
    ELSE IF list[2].t # "List" THEN Err("Invalid lambda: first argument is not list")
    ELSE IF \E i \in 1 .. Len(list[2].l) : list[2].l[i].t # "Symbol"
         THEN Err("Invalid lambda parameter: not symbol")
    ELSE IF list[3].t # "List" THEN Err("Invalid lambda: body is not list")
    ELSE Ok(Lambda([i \in 1 .. Len(list[2].l) |-> list[2].l[i].s], list[3].l))

eval_lambda ==
    /\ IsEval
    /\ IsForm(ctl.obj, {"lambda"})
    /\ Return(lambda_result(ctl.obj.l))

eval_quote ==
    /\ IsEval
    /\ IsForm(ctl.obj, {"quote"})
    /\ IF Len(ctl.obj.l) # 2 THEN Return(Err("Invalid number of arguments for quote statement"))
       ELSE Return(Ok(ctl.obj.l[2]))

(***************************************************************************)
(* eval_func_call.  new_env is created before the arguments are evaluated  *)
(* but is no part of the chain they are evaluated in: it is held in the    *)
(* activation (`new_env`) until the body starts.                           *)
(***************************************************************************)
\* mutant of body_expr: the body's expressions are run as a progn
body_expr_progn(body) == List(<<Symbol("progn")>> \o body)

\* the expression evaluated in the new frame for a lambda with this body
body_expr(body) == List(body)

\* the chain in which the body runs: the caller's chain and the new frame
extend(chain, new_env) == Append(chain, new_env)

call_body(body, new_env) ==
    /\ Len(envs) < MaxDepth
    /\ envs' = extend(envs, new_env)
    /\ ctl' = Evaluating(body_expr(body))

eval_func_call ==
    /\ IsEval
    /\ ctl.obj.t = "List"
    /\ ctl.obj.l # <<>>
    /\ ctl.obj.l[1].t = "Symbol"
    /\ ctl.obj.l[1].s \notin Keywords
    /\ LET list == ctl.obj.l
           func == get_object(envs, list[1].s)
       IN IF ~func.some THEN Return(Err("Unbound func"))
          ELSE IF func.v.t # "Lambda" THEN Return(Err("Not a lambda"))
          ELSE IF Len(func.v.params) # Len(list) - 1
               THEN Return(Err("Invalid call of function: number of arguments is not correct"))
          ELSE IF func.v.params = <<>>
               THEN /\ call_body(func.v.body, EnvNew)
                    /\ stack' = Append(stack, [k |-> "call_body"])
                    /\ UNCHANGED tokens
          ELSE Call(list[2], [k |-> "call_arg", params |-> func.v.params, body |-> func.v.body,
                               list |-> list, i |-> 1, new_env |-> EnvNew])

eval_func_call_arg ==
    /\ Resumes("call_arg")
    /\ IF ~ctl.res.ok THEN Propagate
       ELSE LET new_env == set_object(Top.new_env, Top.params[Top.i], ctl.res.v)
            IN IF Top.i = Len(Top.params)
               THEN /\ call_body(Top.body, new_env)
                    /\ stack' = [stack EXCEPT ![Len(stack)] = [k |-> "call_body"]]
                    /\ UNCHANGED tokens
               ELSE Continue(Top.list[Top.i + 2],
                             [Top EXCEPT !.i = Top.i + 1, !.new_env = new_env])

\* the body's Result is the call's Result; new_env is dropped
eval_func_call_return ==
    /\ Resumes("call_body")
    /\ ctl' = ctl
    /\ stack' = Pop(stack)
    /\ envs' = Pop(envs)
    /\ UNCHANGED tokens

(***************************************************************************)
(* eval_atom, eval_cons, eval_car, eval_cdr                                *)
(***************************************************************************)
eval_atom ==
    /\ IsEval
    /\ IsForm(ctl.obj, {"atom"})
    /\ IF Len(ctl.obj.l) # 2 THEN Return(Err("Invalid number of arguments for atom"))
       ELSE Call(ctl.obj.l[2], [k |-> "atom"])

eval_atom_result ==
    /\ Resumes("atom")
    /\ IF ~ctl.res.ok THEN Propagate
       ELSE Finish(Ok(Bool(ctl.res.v.t \in {"Nil", "Bool", "Integer", "Symbol"})))

cons_result(car, cdr) ==
    CASE cdr.t = "List" -> Ok(List(<<car>> \o cdr.l))
      [] cdr.t = "Nil" -> Ok(List(<<car>>))
      [] OTHER -> Err("Second argument of cons should be list or NIL")

eval_cons ==
    /\ IsEval
    /\ IsForm(ctl.obj, {"cons"})
    /\ IF Len(ctl.obj.l) # 3 THEN Return(Err("Invalid number of arguments for car"))
       ELSE Call(ctl.obj.l[2], [k |-> "cons_car", list |-> ctl.obj.l])

eval_cons_car ==
    /\ Resumes("cons_car")
    /\ IF ~ctl.res.ok THEN Propagate
       ELSE Continue(Top.list[3], [k |-> "cons_cdr", car |-> ctl.res.v])

eval_cons_cdr ==
    /\ Resumes("cons_cdr")
    /\ IF ~ctl.res.ok THEN Propagate ELSE Finish(cons_result(Top.car, ctl.res.v))

eval_car ==
    /\ IsEval
    /\ IsForm(ctl.obj, {"car"})
    /\ IF Len(ctl.obj.l) # 2 THEN Return(Err("Invalid number of arguments for car"))
       ELSE Call(ctl.obj.l[2], [k |-> "car"])

\* list[0] on an empty VecDeque panics; the first element is evaluated again
eval_car_first ==
    /\ Resumes("car")
    /\ IF ~ctl.res.ok THEN Propagate
       ELSE IF ctl.res.v.t # "List" THEN Finish(Err("Invalid car: argument is not list"))
       ELSE IF ctl.res.v.l = <<>> THEN Panic("index out of bounds")
       ELSE TailCall(ctl.res.v.l[1])

cdr_result(obj) ==
    IF obj.t # "List" THEN Err("Invalid cdr: argument is not list")
    ELSE IF Len(obj.l) <= 1 THEN Ok(Nil)
    ELSE Ok(List(Tail(obj.l)))

eval_cdr ==
    /\ IsEval
    /\ IsForm(ctl.obj, {"cdr"})
    /\ IF Len(ctl.obj.l) # 2 THEN Return(Err("Invalid number of arguments for cdr"))
       ELSE Call(ctl.obj.l[2], [k |-> "cdr"])

eval_cdr_result ==
    /\ Resumes("cdr")
    /\ IF ~ctl.res.ok THEN Propagate ELSE Finish(cdr_result(ctl.res.v))

(***************************************************************************)
(* eval_progn: `res` is overwritten by every operand's Result, Ok or Err,  *)
(* and only the last one is returned.                                      *)
(***************************************************************************)
eval_progn ==
    /\ IsEval
    /\ IsForm(ctl.obj, {"progn"})
    /\ IF Len(ctl.obj.l) = 1 THEN Return(Ok(Nil))
       ELSE Call(ctl.obj.l[2], [k |-> "progn", list |-> ctl.obj.l, i |-> 2])

eval_progn_next ==
    /\ Resumes("progn")
    /\ IF Top.i = Len(Top.list) THEN Finish(ctl.res)
       ELSE Continue(Top.list[Top.i + 1], [Top EXCEPT !.i = Top.i + 1])

(***************************************************************************)
(* eval(): parse_program(program)?, then eval_object in the given env.     *)
(***************************************************************************)
eval ==
    /\ ctl.mode = "start"
    /\ LET parsed_list == parse_program(tokens)
       IN IF parsed_list.ok THEN ctl' = Evaluating(parsed_list.v)
          ELSE ctl' = Returning(parsed_list)
    /\ UNCHANGED <<tokens, envs, stack>>

(***************************************************************************)
(* Programs, written as the token vectors lex() produces for them.         *)
(***************************************************************************)
RECURSIVE Concat(_)
Concat(ss) == IF ss = <<>> THEN <<>> ELSE Head(ss) \o Concat(Tail(ss))
Sy(s) == <<TSymbol(s)>>
Nu(n) == <<TInteger(n)>>
Form(items) == <<LParen>> \o Concat(items) \o <<RParen>>
Qu(x) == <<Quote>> \o x
Define(name, x) == Form(<<Sy("define"), Sy(name), x>>)
Fn(params, body) == Form(<<Sy("lambda"), Form([i \in 1 .. Len(params) |-> Sy(params[i])]), body>>)

\* (op a b) for every binary operator and every pair of integers
ProgBinary(op, a, b) == Form(<<Sy(op), Nu(a), Nu(b)>>)
BinaryPrograms == {ProgBinary(op, a, b) : op \in BinaryOps, a \in I64, b \in I64}

\* the map function of the demonstration program (main.rs)
MapDef ==
    Define("map", Fn(<<"f", "l">>,
        Form(<<Sy("if"), Form(<<Sy("atom"), Sy("l")>>), Sy("NIL"),
               Form(<<Sy("cons"),
                      Form(<<Sy("f"), Form(<<Sy("car"), Sy("l")>>)>>),
                      Form(<<Sy("map"), Sy("f"), Form(<<Sy("cdr"), Sy("l")>>)>>)>>)>>)))
Doubler == Fn(<<"x">>, Form(<<Sy("*"), Sy("x"), Nu(2)>>))
MapElems == 1 .. 3
MapLists == UNION {[1 .. n -> MapElems] : n \in 0 .. MaxListLen}
ProgMap(xs) ==
    Form(<<Sy("progn"), MapDef,
           Form(<<Sy("map"), Doubler, Qu(Form([i \in 1 .. Len(xs) |-> Nu(xs[i])]))>>)>>)
MapPrograms == {ProgMap(xs) : xs \in MapLists}

\* a lambda whose body is a list of two expressions, called with a
ProgBody(a) ==
    Form(<<Sy("progn"),
           Define("f", Fn(<<"x">>, Form(<<Define("y", Nu(1)), Form(<<Sy("+"), Sy("x"), Nu(1)>>)>>))),
           Form(<<Sy("f"), Nu(a)>>)>>)
\* a lambda whose body is one form, and one without parameters
ProgBodyForm(a) ==
    Form(<<Sy("progn"), Define("f", Doubler), Form(<<Sy("f"), Nu(a)>>)>>)
ProgThunk(a) ==
    Form(<<Sy("progn"), Define("g", Fn(<<>>, Form(<<Sy("quote"), Nu(a)>>))), Form(<<Sy("g")>>)>>)
BodyArgs == 0 .. 2
BodyPrograms ==
    {ProgBody(a) : a \in BodyArgs} \cup {ProgBodyForm(a) : a \in BodyArgs}
        \cup {ProgThunk(a) : a \in BodyArgs}

\* the callee defines a name the caller binds, and rebinds its own parameter
ProgShadow(v1, v2) ==
    Form(<<Sy("progn"), Define("a", Nu(v1)),
           Define("f", Fn(<<"x">>, Form(<<Sy("progn"), Define("a", Nu(v2)),
                                          Define("x", Nu(0)), Sy("a")>>))),
           Define("r", Form(<<Sy("f"), Sy("a")>>)),
           Sy("a")>>)
\* the same through an intermediate caller g whose parameter is named a
ProgShadowNested(v1, v2) ==
    Form(<<Sy("progn"), Define("a", Nu(v1)),
           Define("f", Fn(<<"x">>, Form(<<Sy("define"), Sy("a"), Nu(0)>>))),
           Define("g", Fn(<<"a">>, Form(<<Sy("progn"), Form(<<Sy("f"), Sy("a")>>), Sy("a")>>))),
           Form(<<Sy("g"), Nu(v2)>>)>>)
ShadowVals == 1 .. 2
ShadowPrograms ==
    {ProgShadow(v1, v2) : v1 \in ShadowVals, v2 \in ShadowVals}
        \cup {ProgShadowNested(v1, v2) : v1 \in ShadowVals, v2 \in ShadowVals}

\* if whose two branches define different names
Conds ==
    {Sy("T"), Sy("F")} \cup {Form(<<Sy(op), Nu(a), Nu(b)>>) : op \in {"<", "=="}, a \in 1 .. 2, b \in 1 .. 2}
ProgIf(c) ==
    Form(<<Sy("progn"),
           Define("r", Form(<<Sy("if"), c,
                              Form(<<Sy("progn"), Define("a", Nu(1)), Nu(3)>>),
                              Form(<<Sy("progn"), Define("b", Nu(2)), Nu(4)>>)>>)),
           Sy("r")>>)
IfPrograms == {ProgIf(c) : c \in Conds}

\* lists as values
ProgDataList == Form(<<Form(<<Define("a", Nu(1)), Nu(2), Sy("NIL"), Nu(3)>>)>>)
ProgConsNil == Form(<<Sy("cons"), Sy("NIL"), Sy("NIL")>>)
ProgCdrNil ==
    Form(<<Sy("cdr"), Form(<<Sy("cons"), Nu(1), Form(<<Sy("cons"), Sy("NIL"), Sy("NIL")>>)>>)>>)
ProgCons == Form(<<Sy("cons"), Nu(1), Qu(Form(<<Nu(2), Nu(3)>>))>>)
ProgConsBad == Form(<<Sy("cons"), Nu(1), Nu(2)>>)
ProgCar(x) == Form(<<Sy("car"), x>>)
CarOperands ==
    {Qu(Form(<<>>)), Qu(Form(<<Nu(1), Nu(2)>>)), Nu(1), Sy("NIL"), Sy("T"), Form(<<>>),
     Form(<<Sy("cons"), Fn(<<"x">>, Form(<<Sy("x")>>)), Sy("NIL")>>)}
ListPrograms ==
    {ProgDataList, ProgConsNil, ProgCdrNil, ProgCons, ProgConsBad}
        \cup {ProgCar(x) : x \in CarOperands}

\* progn with a failing operand in each position
Failing == {Form(<<Sy("car"), Nu(1)>>), Form(<<Sy("/"), Nu(1), Nu(0)>>), Sy("u")}
ProgPrognFirst(e) == Form(<<Sy("progn"), e, Nu(2)>>)
ProgPrognLast(e) == Form(<<Sy("progn"), Nu(1), e>>)
PrognPrograms ==
    {ProgPrognFirst(e) : e \in Failing} \cup {ProgPrognLast(e) : e \in Failing}
        \cup {Form(<<Sy("progn")>>)}

Programs ==
    BinaryPrograms \cup MapPrograms \cup BodyPrograms \cup ShadowPrograms \cup IfPrograms
        \cup ListPrograms \cup PrognPrograms

\* every token vector of at most MaxTokens tokens over a small alphabet
TokenAlphabet == {LParen, RParen, Quote, TInteger(1), TSymbol("a")}
TokenVectors == UNION {[1 .. n -> TokenAlphabet] : n \in 0 .. MaxTokens}

(***************************************************************************)
(* main.rs: a fresh root Env, then eval(program, &mut env).                *)
(***************************************************************************)
Start(programs) ==
    /\ tokens \in programs
    /\ ctl = [mode |-> "start"]
    /\ envs = <<EnvNew>>
    /\ stack = <<>>

Init == Start(Programs)

Next ==
    \/ eval
    \/ eval_object
    \/ eval_symbol
    \/ eval_list
    \/ eval_list_next
    \/ eval_binary_op
    \/ eval_binary_op_left
    \/ eval_binary_op_right
    \/ eval_define
    \/ eval_define_set
    \/ eval_if
    \/ eval_if_branch
    \/ eval_lambda
    \/ eval_quote
    \/ eval_func_call
    \/ eval_func_call_arg
    \/ eval_func_call_return
    \/ eval_atom
    \/ eval_atom_result
    \/ eval_cons
    \/ eval_cons_car
    \/ eval_cons_cdr
    \/ eval_car
    \/ eval_car_first
    \/ eval_cdr
    \/ eval_cdr_result
    \/ eval_progn
    \/ eval_progn_next

Spec == Init /\ [][Next]_vars

\* the parser alone, over every short token vector
InitParse == Start(TokenVectors)
NextParse == eval
SpecParse == InitParse /\ [][NextParse]_vars

(***************************************************************************)
(* C1 (as amended).  The body of a lambda is evaluated as ONE expression,  *)
(* List(body), in the new frame, and the call returns that expression's    *)
(* Result: a body headed by a symbol is a single form; a body headed by    *)
(* anything else is data-list-evaluated, so the call returns the List of   *)
(* the non-Nil values of its elements, not the value of the last one.      *)
(***************************************************************************)
StartsBody == stack' # <<>> /\ Last(stack').k = "call_body" /\ Len(envs') = Len(envs) + 1
StartingBody ==
    IF Resumes("call_arg") THEN Top.body ELSE get_object(envs, ctl.obj.l[1].s).v.body
BodyListEnds ==
    /\ Resumes("list")
    /\ Len(stack) >= 2
    /\ stack[Len(stack) - 1].k = "call_body"
    /\ Top.i = Len(Top.list)
    /\ ctl.res.ok
C1_Step ==
    /\ StartsBody => ctl' = Evaluating(List(StartingBody))
    /\ Resumes("call_body") => ctl' = ctl
    /\ BodyListEnds =>
          ctl' = Returning(Ok(List(IF ctl.res.v = Nil THEN Top.new_list
                                   ELSE Append(Top.new_list, ctl.res.v))))
C1_Results ==
    Done => \A a \in BodyArgs :
                /\ tokens = ProgBody(a) => ctl.res = Ok(List(<<Integer(a + 1)>>))
                /\ tokens = ProgBodyForm(a) => ctl.res = Ok(Integer(2 * a))
                /\ tokens = ProgThunk(a) => ctl.res = Ok(Integer(a))
\* C1 (as amended): a call evaluates List(body) as one expression in the new frame and
\* returns its Result; a body not headed by a symbol returns the List of its non-Nil values
C1_BodyIsOneExpression == [](C1_Results) /\ [][C1_Step]_vars

\* C1 witness: f's two-expression body has run and the call returned a list
C1_Witness == Done /\ tokens = ProgBody(1) /\ ctl.res = Ok(List(<<Integer(2)>>))

\* C1 as claimed: the body is an implicit progn, so
\* (f a) with body ((define y 1) (+ x 1)) returns the value of (+ x 1)
C1_ImplicitProgn ==
    Done => \A a \in BodyArgs : tokens = ProgBody(a) => ctl.res = Ok(Integer(a + 1))

(***************************************************************************)
(* C2.  Frames are a stack: a step changes no frame but the current one,   *)
(* a call pushes one frame on the caller's unchanged chain, a return pops  *)
(* exactly that frame; so after a call returns the caller's frame and its  *)
(* ancestors hold what they held when the body started, also for a name    *)
(* the callee defined.                                                     *)
(***************************************************************************)
C2_Step ==
    /\ Len(envs') \in {Len(envs) - 1, Len(envs), Len(envs) + 1}
    /\ Len(envs') = Len(envs) + 1 => Pop(envs') = envs
    /\ Len(envs') = Len(envs) - 1 => Resumes("call_body") /\ envs' = Pop(envs)
    /\ Len(envs') = Len(envs) => \A i \in 1 .. Len(envs) - 1 : envs'[i] = envs[i]
C2_Results ==
    Done => \A v1 \in ShadowVals, v2 \in ShadowVals :
                /\ tokens = ProgShadow(v1, v2) =>
                      /\ ctl.res = Ok(Integer(v1))
                      /\ Len(envs) = 1
                      /\ DOMAIN envs[1] = {"a", "f", "r"}
                      /\ envs[1]["a"] = Integer(v1)
                      /\ envs[1]["r"] = Integer(v2)
                /\ tokens = ProgShadowNested(v1, v2) =>
                      /\ ctl.res = Ok(Integer(v2))
                      /\ Len(envs) = 1
                      /\ DOMAIN envs[1] = {"a", "f", "g"}
                      /\ envs[1]["a"] = Integer(v1)
\* C2: defines and parameter bindings of a call touch only the call's own frame; the
\* caller's frame and its ancestors are as they were once the call has returned
C2_Shadowing == [](C2_Results) /\ [][C2_Step]_vars

\* C2 witness: the callee defined a = 2 and returned it; the caller's a is still 1
C2_Witness ==
    /\ Done
    /\ tokens = ProgShadow(1, 2)
    /\ envs[1]["a"] = Integer(1)
    /\ envs[1]["r"] = Integer(2)

(***************************************************************************)
(* C3 (as amended).  A List made by data-list evaluation holds no Nil      *)
(* element.  cons does not filter: (cons NIL NIL) is the list (NIL), and   *)
(* cdr hands such lists on.                                                *)
(***************************************************************************)
NoNil(l) == \A i \in 1 .. Len(l) : l[i] # Nil
C3_Step ==
    Resumes("list") /\ ctl'.mode = "ret" /\ ctl'.res.ok =>
        ctl'.res.v.t = "List" /\ NoNil(ctl'.res.v.l)
C3_Results ==
    /\ \A i \in 1 .. Len(stack) : stack[i].k = "list" => NoNil(stack[i].new_list)
    /\ Done =>
          /\ tokens = ProgDataList => ctl.res = Ok(List(<<List(<<Integer(2), Integer(3)>>)>>))
          /\ tokens = ProgConsNil => ctl.res = Ok(List(<<Nil>>))
          /\ tokens = ProgCdrNil => ctl.res = Ok(List(<<Nil>>))
\* C3 (as amended): a List made by data-list evaluation holds no Nil; cons keeps a Nil head
C3_DataListsHoldNoNil == [](C3_Results) /\ [][C3_Step]_vars

\* C3 witness: ((define a 1) 2 NIL 3) has been collected without its two Nil results
C3_Witness ==
    /\ tokens = ProgDataList
    /\ ctl = Returning(Ok(List(<<Integer(2), Integer(3)>>)))
    /\ Len(stack) = 1

\* C3 as claimed: no List value returned by any evaluation holds a Nil
C3_NoListHoldsNil ==
    ctl.mode = "ret" /\ ctl.res.ok /\ ctl.res.v.t = "List" => NoNil(ctl.res.v.l)

(***************************************************************************)
(* C4 as claimed: car of an operand that evaluates to a non-list or to an  *)
(* empty list returns an Err and the process does not abort.               *)
(***************************************************************************)
C4_CarReturnsErr ==
    [][Resumes("car") /\ ctl.res.ok /\ (ctl.res.v.t # "List" \/ ctl.res.v = List(<<>>))
          => ctl'.mode = "ret" /\ ~ctl'.res.ok]_vars

(***************************************************************************)
(* C5.  Once cond has evaluated to a Bool, the if activation is replaced   *)
(* by the evaluation of the taken branch alone, in the same frames; a name *)
(* that only the untaken branch defines is bound in no frame afterwards    *)
(* and the result is the taken branch's value.                             *)
(***************************************************************************)
C5_Step ==
    Resumes("if") /\ ctl.res.ok /\ ctl.res.v.t = "Bool" =>
        /\ ctl' = Evaluating(IF ctl.res.v.b THEN Top.list[3] ELSE Top.list[4])
        /\ stack' = Pop(stack)
        /\ envs' = envs
CondHolds(c) ==
    CASE c = Sy("T") -> TRUE
      [] c = Sy("F") -> FALSE
      [] c[2].s = "<" -> c[3].n < c[4].n
      [] c[2].s = "==" -> c[3].n = c[4].n
C5_Results ==
    \A c \in Conds : tokens = ProgIf(c) =>
        /\ \A i \in 1 .. Len(envs) : (IF CondHolds(c) THEN "b" ELSE "a") \notin DOMAIN envs[i]
        /\ Done =>
              /\ ctl.res = Ok(Integer(IF CondHolds(c) THEN 3 ELSE 4))
              /\ DOMAIN envs[1] = {"r", IF CondHolds(c) THEN "a" ELSE "b"}
\* C5: if evaluates the taken branch only; what the untaken branch would define is bound
\* in no frame, and the result is the taken branch's value
C5_IfEvaluatesOneBranch == [](C5_Results) /\ [][C5_Step]_vars

\* C5 witness: (if (< 1 2) ..) took its then branch; b is unbound, a is bound
C5_Witness ==
    /\ Done
    /\ tokens = ProgIf(Form(<<Sy("<"), Nu(1), Nu(2)>>))
    /\ ctl.res = Ok(Integer(3))
    /\ "a" \in DOMAIN envs[1]
    /\ "b" \notin DOMAIN envs[1]

(***************************************************************************)
(* C6 as claimed: for all integers a and b of the machine width, the sum,  *)
(* difference and product forms return the exact result, division by 0     *)
(* returns an Err, and no pair of operands aborts the evaluation.          *)
(***************************************************************************)
IsBinaryProgram ==
    /\ Len(tokens) = 5
    /\ tokens[2].k = "Symbol"
    /\ tokens[2].s \in BinaryOps
    /\ tokens[3].k = "Integer"
    /\ tokens[4].k = "Integer"
\* C6 as claimed: exact sum, difference and product, an Err for a zero divisor, no abort
C6_ExactArithmetic ==
    IsBinaryProgram =>
        LET op == tokens[2].s
            a == tokens[3].n
            b == tokens[4].n
        IN /\ ctl.mode # "panic"
           /\ Done /\ op \in {"+", "-", "*"} => ctl.res = Ok(Integer(Exact(op, a, b)))
           /\ Done /\ op = "/" /\ b = 0 => ~ctl.res.ok

(***************************************************************************)
(* C7 as claimed: evaluating a Lambda value yields that same Lambda.       *)
(***************************************************************************)
C7_LambdaSelfEvaluates ==
    [][IsEval /\ ctl.obj.t = "Lambda" => ctl' = Returning(Ok(ctl.obj))]_vars

(***************************************************************************)
(* C8 as claimed: map with the doubling lambda over any quoted list        *)
(* of integers terminates normally and returns the doubled elements in     *)
(* order (the empty list giving an empty result).                          *)
(***************************************************************************)
MapPrefix == Len(ProgMap(<<>>)) - 3
IsMapProgram ==
    /\ Len(tokens) >= MapPrefix + 3
    /\ SubSeq(tokens, 1, MapPrefix) = SubSeq(ProgMap(<<>>), 1, MapPrefix)
MapInput == [i \in 1 .. Len(tokens) - MapPrefix - 3 |-> tokens[MapPrefix + i].n]
Doubled(xs) == [i \in 1 .. Len(xs) |-> Integer(2 * xs[i])]
\* C8 as claimed: map with the doubling lambda returns the doubled list for every list
C8_MapDoubles ==
    IsMapProgram =>
        /\ ctl.mode # "panic"
        /\ Done => IF MapInput = <<>> THEN ctl.res \in {Ok(Nil), Ok(List(<<>>))}
                   ELSE ctl.res = Ok(List(Doubled(MapInput)))

\* the part of C8 that the code meets: non-empty lists are doubled in order
C8_NonEmptyDoubled ==
    IsMapProgram /\ MapInput # <<>> =>
        /\ ctl.mode # "panic"
        /\ Done => ctl.res = Ok(List(Doubled(MapInput)))
C8_Reached == IsMapProgram /\ Done /\ MapInput = <<1, 2, 3>> /\ Len(envs) = 1

(***************************************************************************)
(* C9 (as amended).  parse fails on a vector that does not start with a    *)
(* left parenthesis, and on a quote marker inside the root list that is    *)
(* directly followed by a right parenthesis or another quote marker;       *)
(* every other vector yields a root List: tokens running out close the     *)
(* open lists, a quote marker with a form after it becomes (quote X), a    *)
(* quote marker that is the last token adds nothing.                       *)
(***************************************************************************)
RECURSIVE Depth(_, _)
\* the number of lists open after the first i tokens
Depth(toks, i) ==
    IF i = 0 THEN 0
    ELSE Depth(toks, i - 1)
            + (IF toks[i] = LParen THEN 1 ELSE IF toks[i] = RParen THEN 0 - 1 ELSE 0)
\* token i is read before the root list is closed
Inside(toks, i) == \A j \in 1 .. i - 1 : Depth(toks, j) >= 1
BadQuote(toks) ==
    \E i \in 1 .. Len(toks) - 1 :
        toks[i] = Quote /\ toks[i + 1] \in {RParen, Quote} /\ Inside(toks, i)
Atom(token) == IF token.k = "Integer" THEN Integer(token.n) ELSE Symbol(token.s)
\* C9 (as amended): the outcome of parse for every token vector
C9_ParseOutcome ==
    ctl.mode # "start" =>
        IF tokens = <<>> \/ tokens[1] # LParen THEN ctl = Returning(Err("Expected LParen"))
        ELSE IF BadQuote(tokens) THEN ctl = Returning(Err("Invalid quote"))
        ELSE /\ ctl.mode = "eval"
             /\ ctl.obj.t = "List"
             /\ Inside(tokens, Len(tokens) + 1) /\ Last(tokens) # Quote
                    => Ok(ctl.obj) = parse_program(Append(tokens, RParen))
             /\ Inside(tokens, Len(tokens)) /\ Last(tokens) = Quote
                    => Ok(ctl.obj) = parse_program(Pop(tokens))
             /\ Len(tokens) >= 3 /\ tokens[2] = Quote /\ tokens[3].k \in {"Integer", "Symbol"}
                    => ctl.obj.l[1] = List(<<Symbol("quote"), Atom(tokens[3])>>)
             /\ Len(tokens) >= 3 /\ tokens[2] = Quote /\ tokens[3] = LParen
                    => /\ ctl.obj.l[1].t = "List"
                       /\ Len(ctl.obj.l[1].l) = 2
                       /\ ctl.obj.l[1].l[1] = Symbol("quote")
                       /\ ctl.obj.l[1].l[2].t = "List"

\* C9 witness: ( ' ( 1  parsed: both lists closed by the end of the tokens
C9_Witness ==
    /\ tokens = <<LParen, Quote, LParen, TInteger(1)>>
    /\ ctl = Evaluating(List(<<List(<<Symbol("quote"), List(<<Integer(1)>>)>>)>>))

\* C9 as claimed: every vector that starts with a left parenthesis parses
C9_ParseNeverFails ==
    ctl.mode # "start" /\ tokens # <<>> /\ tokens[1] = LParen =>
        ctl.mode = "eval" /\ ctl.obj.t = "List"

(***************************************************************************)
(* C10 as claimed: an Err from any operand of a progn makes the progn      *)
(* return an Err.                                                          *)
(***************************************************************************)
C10_PrognPropagates ==
    [][Resumes("progn") /\ ~ctl.res.ok => ctl'.mode = "ret" /\ ~ctl'.res.ok]_vars

====
